---- MODULE Spec2Model ----
(***************************************************************************)
(* Model of the Clue command line driver (cli/src/main.rs): discovery of   *)
(* the source files of a directory tree, their compilation by a pool of    *)
(* worker threads sharing three mutexes, the aggregation of the per-file   *)
(* outcomes and the persistence of the assembled artifact.                 *)
(*                                                                         *)
(* The per-file translation (compile_code) is an external collaborator:    *)
(* its outcome is a property of the file's content.                        *)
(***************************************************************************)
EXTENDS Integers, Sequences, FiniteSets, TLC

(***************************************************************************)
(* Bounds of the model.                                                    *)
(***************************************************************************)
MaxCpus == 2          \* num_cpus::get() ranges over 1..MaxCpus
ExtraFiles == 2       \* the large tree holds 2^8 + ExtraFiles source files

(***************************************************************************)
(* Program constants.                                                      *)
(***************************************************************************)
U8Bits == 8           \* width of the error counter (0u8)
U8Mod == 2 ^ U8Bits
Scope == 2            \* scope depth handed to compile_file by the workers

Main == 0             \* thread id of the thread running main/compile_folder
Free == -1            \* a mutex nobody holds

(***************************************************************************)
(* String helpers of the standard library, as the code uses them.          *)
(***************************************************************************)
ends_with(s, suf) ==
    /\ Len(s) >= Len(suf)
    /\ SubSeq(s, Len(s) - Len(suf) + 1, Len(s)) = suf

\* Option<&str>: <<>> is None, <<t>> is Some(t)
strip_suffix(s, suf) ==
    IF ends_with(s, suf) THEN <<SubSeq(s, 1, Len(s) - Len(suf))>> ELSE <<>>

unwrap(opt) == opt[1]

\* the pool is sized on the hardware alone
min_ignoring_files(a, b) == b

min(a, b) == IF a <= b THEN a ELSE b

(***************************************************************************)
(* The file system the program runs on.  A directory entry is a file       *)
(* (with the status of its content) or a directory (readable or not).      *)
(*   src = "good"   : opens, reads and translates                          *)
(*   src = "bad"    : opens and reads, the translation reports an error    *)
(*   src = "noread" : File::open / read_to_string fails                    *)
(***************************************************************************)
SrcKinds == {"good", "bad", "noread"}

FileEntry(n, s) ==
    [name |-> n, is_dir |-> FALSE, readable |-> TRUE, entries |-> <<>>, src |-> s]

DirEntry(n, r, es) ==
    [name |-> n, is_dir |-> TRUE, readable |-> r, entries |-> es, src |-> "none"]

\* the choices for an optional file called n: absent, or of any content status
OptFile(n) ==
    << <<>>, <<FileEntry(n, "good")>>, <<FileEntry(n, "bad")>>,
       <<FileEntry(n, "noread")>> >>

\* the choices for the optional sub-directory "a"
OptSubDir ==
    << <<>>, <<DirEntry("a", FALSE, <<>>)>>, <<DirEntry("a", TRUE, <<>>)>> >>
    \o [i \in 1..3 |-> <<DirEntry("a", TRUE, OptFile("b.clue")[i + 1])>>]

OptOther == << <<>>, <<FileEntry("n.txt", "good")>> >>

\* the k-th small tree (k from 0): one choice per entry of the root
SmallTree(k) ==
    DirEntry("root", TRUE,
        OptSubDir[(k % 6) + 1]
        \o OptFile("a.b.clue")[((k \div 6) % 4) + 1]
        \o OptFile("m.clue")[((k \div 24) % 4) + 1]
        \o OptOther[((k \div 96) % 2) + 1])

NumSmallTrees == 6 * 4 * 4 * 2

\* a flat directory of n source files: the first is good, the others are bad
LargeTree(n) ==
    DirEntry("root", TRUE,
        [i \in 1..n |-> FileEntry("f" \o ToString(i) \o ".clue",
                                  IF i = 1 THEN "good" ELSE "bad")])

\* every tree of the model: the small ones, a root that cannot be read, and
\* the large one
SmallTable ==
    [k \in 1..NumSmallTrees |-> SmallTree(k - 1)]
    \o <<DirEntry("root", FALSE, <<>>)>>
LargeTable == <<LargeTree(U8Mod + ExtraFiles)>>

\* the markers of the base template.  The output marker, the character U+00A7
\* of the source, is written "$": TLC keeps only the ASCII characters of a
\* string that is part of a state.
StaticsMarker == "--STATICS\n"
OutputMarker == "$"
Sentinel == "--STATICS"

\* the choices for the optional directory a, which holds the directory b with
\* the file c.clue and a file that is no source file
OptNested ==
    << <<>>,
       <<DirEntry("a", TRUE,
            <<DirEntry("b", TRUE, <<FileEntry("c.clue", "good")>>),
              FileEntry("n.txt", "good")>>)>> >>

\* the k-th tree (k from 0) of files whose names hold the marker texts of the
\* assembly, with or without the nested directories
MarkerTree(k) ==
    DirEntry("root", TRUE,
        OptNested[(k % 2) + 1]
        \o OptFile(OutputMarker \o ".clue")[((k \div 2) % 4) + 1]
        \o OptFile(Sentinel \o ".clue")[((k \div 8) % 4) + 1])

NumMarkerTrees == 2 * 4 * 4

MarkerTable == [k \in 1..NumMarkerTrees |-> MarkerTree(k - 1)]

TreeTable == SmallTable \o LargeTable \o MarkerTable

SmallIds == 1..Len(SmallTable)
LargeIds == (Len(SmallTable) + 1)..(Len(SmallTable) + Len(LargeTable))
MarkerIds == (Len(SmallTable) + Len(LargeTable) + 1)..Len(TreeTable)

(***************************************************************************)
(* Results: Result<T, String> is [ok |-> TRUE, val |-> t] or               *)
(* [ok |-> FALSE, val |-> message].                                        *)
(***************************************************************************)
Ok(t) == [ok |-> TRUE, val |-> t]
Err(e) == [ok |-> FALSE, val |-> e]

(***************************************************************************)
(* check_for_files: the recursive walk of a directory.  The result is      *)
(* Ok(files), files a list of (filepath_name, realname), or Err(message).  *)
(***************************************************************************)
RECURSIVE check_for_files(_, _, _), read_dir_loop(_, _, _, _, _)

\* the iterations lo..hi of the loop over the entries of a directory: the
\* files they collect, in order, or the first error (the ? operator)
read_dir_loop(path, rpath, entries, lo, hi) ==
    IF lo > hi THEN Ok(<<>>)
    ELSE IF lo < hi
    THEN LET mid == (lo + hi) \div 2
             first == read_dir_loop(path, rpath, entries, lo, mid)
         IN  IF ~first.ok THEN first
             ELSE LET rest == read_dir_loop(path, rpath, entries, mid + 1, hi)
                  IN  IF ~rest.ok THEN rest
                      ELSE Ok(first.val \o rest.val)
    ELSE LET entry == entries[lo]
             name == entry.name
             filepath_name == path \o "/" \o name
             realname == rpath \o name
         IN  IF entry.is_dir
             THEN check_for_files(filepath_name, realname \o ".", entry)
             ELSE IF ends_with(filepath_name, ".clue")
             THEN Ok(<< <<filepath_name, realname>> >>)
             ELSE Ok(<<>>)

\* a directory that cannot be read is passed over
check_for_files_skipping(path, rpath, dir) ==
    IF ~dir.readable
    THEN Ok(<<>>)
    ELSE read_dir_loop(path, rpath, dir.entries, 1, Len(dir.entries))

check_for_files(path, rpath, dir) ==
    IF ~dir.readable
    THEN Err("Permission denied (os error 13)")
    ELSE read_dir_loop(path, rpath, dir.entries, 1, Len(dir.entries))

\* the walk of every tree of the table, from the root with an empty prefix
Discovered == [t \in DOMAIN TreeTable |-> check_for_files("root", "", TreeTable[t])]

RECURSIVE FilesUnder(_, _)
\* the regular files below a directory, as (path, content status)
FilesUnder(path, dir) ==
    UNION {IF dir.entries[i].is_dir
           THEN FilesUnder(path \o "/" \o dir.entries[i].name, dir.entries[i])
           ELSE {<<path \o "/" \o dir.entries[i].name, dir.entries[i].src>>} :
           i \in DOMAIN dir.entries}

\* File::open and read_to_string by path, on every tree of the table
FileSrc ==
    [t \in DOMAIN TreeTable |->
        LET S == FilesUnder("root", TreeTable[t])
        IN  [p \in {f[1] : f \in S} |-> (CHOOSE f \in S : f[1] = p)[2]]]

\* the external translation of a source text that was read
compile_code(src, name, scope) ==
    IF src = "bad" THEN Err("Error in file \"" \o name \o "\"!")
    ELSE Ok("lua" \o ToString(scope) \o ":" \o name)

\* File::open(path) followed by read_to_string: the text, or the IO error
read_source(src, path) ==
    IF src = "noread" THEN Err("No such file or directory (os error 2)")
    ELSE Ok(src)

\* check!(r): on Err(e) the enclosing function returns Err(e.to_string());
\* <<>> when r is Ok and the function goes on
check(r) == IF r.ok THEN <<>> ELSE <<Err(r.val)>>

\* lines 154-166
compile_file(src, path, name, scope) ==
    LET code == read_source(src, path)
    IN  IF check(code) # <<>> THEN check(code)[1]
        ELSE compile_code(code.val, name, scope)

\* format_clue!: the concatenation of its arguments
format_clue(strings) ==
    LET RECURSIVE cat(_)
        cat(i) == IF i > Len(strings) THEN "" ELSE strings[i] \o cat(i + 1)
    IN  cat(1)

\* the fragment is keyed by the name with its extension
FragmentKeepingExtension(realname, code) ==
    format_clue(<<"\t[\"", realname, "\"] = function()\n", code, "\n\tend,\n">>)

\* the fragment a worker pushes for a file it compiled
Fragment(realname, code) ==
    format_clue(<<"\t[\"", unwrap(strip_suffix(realname, ".clue")),
                  "\"] = function()\n", code, "\n\tend,\n">>)

\* the result of the match on the error counter
Aggregate(n, fragments) ==
    IF n = 0 THEN Ok(fragments)
    ELSE IF n = 1 THEN Err("1 file failed to compile!")
    ELSE Err(ToString(n) \o " files failed to compile!")

(***************************************************************************)
(* The assembly of the artifact (main, lines 317-338).                     *)
(***************************************************************************)
\* the positions at which pat occurs in s
Occurrences(s, pat) ==
    {i \in 1..(Len(s) - Len(pat) + 1) : SubSeq(s, i, i + Len(pat) - 1) = pat}

SetMax(S) == CHOOSE x \in S : \A y \in S : y <= x
SetMin(S) == CHOOSE x \in S : \A y \in S : x <= y

\* str::rsplit_once: the split at the last occurrence, <<>> when there is none
rsplit_once(s, pat) ==
    IF Occurrences(s, pat) = {} THEN <<>>
    ELSE LET i == SetMax(Occurrences(s, pat))
         IN  << <<SubSeq(s, 1, i - 1), SubSeq(s, i + Len(pat), Len(s))>> >>

\* str::replace: every non-overlapping occurrence, from the left
replace(s, from, to) ==
    LET occ == Occurrences(s, from)
        RECURSIVE from_pos(_)
        from_pos(pos) ==
            LET later == {i \in occ : i >= pos}
            IN  IF later = {} THEN SubSeq(s, pos, Len(s))
                ELSE LET i == SetMin(later)
                     IN  SubSeq(s, pos, i - 1) \o to \o from_pos(i + Len(from))
    IN  from_pos(1)

\* the iterations from i of the loop "for file in fragments { code += &file }"
RECURSIVE concat_from(_, _)
concat_from(fragments, i) ==
    IF i > Len(fragments) THEN "" ELSE fragments[i] \o concat_from(fragments, i + 1)

\* include_str!("base.lua"), the built-in template
BaseLua ==
    StaticsMarker \o "local modules = {\n" \o OutputMarker \o "}\nreturn modules\n"

\* the content of the file a --base option may name
CustomBases ==
    {StaticsMarker \o "{" \o OutputMarker \o "}",
     StaticsMarker \o "{" \o OutputMarker \o "}{" \o OutputMarker \o "}",
     "return {}"}

\* format!(include_str!("debug.lua"), &code), the debug template
DebugLua(code) == "--debug\n" \o code \o "--end\n"

\* lines 318-321: code += "--STATICS\n", then every fragment is appended
Joined(prefix, fragments) ==
    prefix \o StaticsMarker \o concat_from(fragments, 1)

\* line 322: (statics, output) = code.rsplit_once("--STATICS").unwrap()
SplitCode(joined) == unwrap(rsplit_once(joined, Sentinel))

\* lines 324-338: base.replace("--STATICS\n", statics).replace('§', output)
Fill(base, statics, out) ==
    replace(replace(base, StaticsMarker, statics), OutputMarker, out)

\* lines 318-338, given the text of the base template
Assemble(prefix, fragments, base) ==
    LET split == SplitCode(Joined(prefix, fragments))
    IN  Fill(base, split[1], split[2])

(***************************************************************************)
(* State.                                                                  *)
(***************************************************************************)
MaxThreads == 2 * MaxCpus
Workers == 1..MaxThreads

VARIABLES
    tree,           \* the directory tree the program is run on (index in TreeTable)
    cpus,           \* num_cpus::get()
    pc,             \* position of the main thread
    cf_result,      \* <<>> or <<r>>, r the Result compile_folder returned
    result,         \* <<>> or <<r>>, r the Result main returned
    files,          \* Mutex<Vec<(String, String)>>: indices into the discovered list
    errored,        \* Mutex<u8>
    poisoned,       \* the errored mutex is poisoned
    output,         \* Mutex<Vec<String>>
    files_lock, errored_lock, output_lock,   \* holder of each mutex, or Free
    threads_count, spawned, joined,
    wpc,            \* position of each worker thread
    wfile,          \* (filename, realname) of the worker's iteration: an index, 0 if none
    wcode,          \* the code compile_file returned to the worker
    calls,          \* history: compile_file calls per discovered file
    err_returns,    \* history: compile_file calls that returned Err
    io_returns,     \* history: those of them that were IO failures
    printed,        \* history: the "Error: ..." lines the workers printed
    code,           \* main's code: String
    asm,            \* main's locals of the assembly: base, prefix, statics, output
    compiledname,   \* main's compiledname: String
    dontsave,       \* cli.dontsave, FALSE until main reads it
    debug,          \* options.env_debug, FALSE until main reads it
    disk,           \* the files the run wrote: path -> content
    writes          \* history: the fs::write calls, [path, ok]

shared == <<files, errored, poisoned, output>>
locks == <<files_lock, errored_lock, output_lock>>
threads == <<threads_count, spawned, joined>>
history == <<calls, err_returns, io_returns, printed>>
input == <<tree, cpus>>
pool == <<shared, locks, threads, wpc, wfile, wcode, history>>
saved == <<code, asm, compiledname, dontsave, debug, disk, writes>>
vars == <<input, pc, cf_result, result, pool, saved>>

Found == IF Discovered[tree].ok THEN Discovered[tree].val ELSE <<>>
filename(i) == Found[i][1]
realname(i) == Found[i][2]

\* the locals of the assembly before main reaches it
NoAssembly == [base |-> "", prefix |-> "", statics |-> "", output |-> ""]

InitWith(ids) ==
    /\ tree \in ids
    /\ cpus \in 1..MaxCpus
    /\ pc = "main"
    /\ cf_result = <<>>
    /\ result = <<>>
    /\ files = <<>>
    /\ errored = 0
    /\ poisoned = FALSE
    /\ output = <<>>
    /\ files_lock = Free /\ errored_lock = Free /\ output_lock = Free
    /\ threads_count = 0 /\ spawned = 0 /\ joined = 0
    /\ wpc = [w \in Workers |-> "unspawned"]
    /\ wfile = [w \in Workers |-> 0]
    /\ wcode = [w \in Workers |-> ""]
    /\ calls = <<>>
    /\ err_returns = 0
    /\ io_returns = 0
    /\ printed = 0
    /\ code = ""
    /\ asm = NoAssembly
    /\ compiledname = ""
    /\ dontsave = FALSE
    /\ debug = FALSE
    /\ disk = <<>>
    /\ writes = <<>>

Init == InitWith(SmallIds)

(***************************************************************************)
(* compile_folder, the thread that calls it.                               *)
(***************************************************************************)
\* lines 293-297: code starts as the jitbit prelude, if the option is given
Prelude(jitbit) ==
    IF jitbit = <<>> THEN ""
    ELSE "local " \o jitbit[1] \o " = require(\"bit\");\n"

JitbitOptions == {<<>>, <<"bit">>}

\* lines 275-281: the early exits of main
MainExit ==
    /\ pc = "main"
    /\ \E license \in BOOLEAN, types \in BOOLEAN :
          /\ license \/ types
          /\ result' = <<IF license THEN Ok("")
                         ELSE Err("Type checking is not supported yet!")>>
    /\ pc' = "done"
    /\ UNCHANGED <<input, cf_result, pool, saved>>

\* lines 305-313: PATH is the code itself
MainCode ==
    /\ pc = "main"
    /\ \E src \in {"good", "bad"} :
          LET r == compile_code(src, "(command line)", 0)
          IN  result' = <<IF r.ok THEN Ok("") ELSE r>>
    /\ pc' = "done"
    /\ UNCHANGED <<input, cf_result, pool, saved>>

\* lines 314-319: path.is_dir(), the call of compile_folder.  Nothing reads
\* code before the assembly, where its prelude is drawn.
MainDir ==
    /\ pc = "main"
    /\ pc' = "compile_folder"
    /\ UNCHANGED <<input, cf_result, result, pool, saved>>

\* lines 368-370: the path is neither a directory nor a file
MainNoPath ==
    /\ pc = "main"
    /\ result' = <<Err("The given path doesn't exist")>>
    /\ pc' = "done"
    /\ UNCHANGED <<input, cf_result, pool, saved>>

\* lines 205-210: the discovery, the pool size and the three shared cells
Setup ==
    /\ pc = "compile_folder"
    /\ LET found == check_for_files("root", "", TreeTable[tree])
       IN  IF found.ok
           THEN /\ check(found) = <<>>
                /\ files' = [i \in 1..Len(found.val) |-> i]
                /\ threads_count' = min(Len(found.val), cpus * 2)
                /\ errored' = 0
                /\ output' = <<>>
                /\ calls' = [i \in 1..Len(found.val) |-> 0]
                /\ pc' = "threads"
                /\ UNCHANGED cf_result
           ELSE /\ cf_result' = check(found)
                /\ pc' = "returned"
                /\ UNCHANGED <<files, threads_count, errored, output, calls>>
    /\ UNCHANGED saved
    /\ UNCHANGED <<input, result, poisoned, locks, spawned, joined, wpc, wfile,
                   wcode, err_returns, io_returns, printed>>

\* lines 211-247: one iteration of the loop that spawns the workers
Spawn ==
    /\ pc = "threads"
    /\ spawned < threads_count
    /\ spawned' = spawned + 1
    /\ wpc' = [wpc EXCEPT ![spawned + 1] = "loop"]
    /\ UNCHANGED saved
    /\ UNCHANGED <<input, pc, cf_result, result, shared, locks, threads_count,
                   joined, wfile, wcode, history>>

Terminated(w) == wpc[w] \in {"exited", "panicked"}

\* the loop over the threads ends without waiting for them
JoinWithoutWaiting ==
    /\ pc = "threads"
    /\ spawned = threads_count
    /\ joined < threads_count
    /\ joined' = joined + 1
    /\ UNCHANGED saved
    /\ UNCHANGED <<input, pc, cf_result, result, shared, locks, threads_count,
                   spawned, wpc, wfile, wcode, history>>

\* lines 249-251: thread.join().unwrap() of the next thread; the join of a
\* thread that panicked is an Err and the unwrap panics
Join ==
    /\ pc = "threads"
    /\ spawned = threads_count
    /\ joined < threads_count
    /\ Terminated(joined + 1)
    /\ IF wpc[joined + 1] = "panicked"
       THEN pc' = "panicked" /\ UNCHANGED joined
       ELSE joined' = joined + 1 /\ UNCHANGED pc
    /\ UNCHANGED saved
    /\ UNCHANGED <<input, cf_result, result, shared, locks, threads_count,
                   spawned, wpc, wfile, wcode, history>>

\* line 253: errored.lock()
LockErrored ==
    /\ pc = "threads"
    /\ spawned = threads_count
    /\ joined = threads_count
    /\ errored_lock = Free
    /\ IF poisoned
       THEN pc' = "panicked" /\ UNCHANGED errored_lock
       ELSE pc' = "read_errored" /\ errored_lock' = Main
    /\ UNCHANGED saved
    /\ UNCHANGED <<input, cf_result, result, shared, files_lock, output_lock,
                   threads, wpc, wfile, wcode, history>>

\* line 253: the counter is read and its guard dropped at the end of the
\* statement; no thread is left to change the counter
ReadErrored ==
    /\ pc = "read_errored"
    /\ errored_lock' = Free
    /\ pc' = "match"
    /\ UNCHANGED saved
    /\ UNCHANGED <<input, cf_result, result, shared, files_lock, output_lock,
                   threads, wpc, wfile, wcode, history>>

\* lines 254-258: the match on the value read; the failure arms return, the
\* arm 0 locks the fragment list
MatchErrored ==
    /\ pc = "match"
    /\ IF errored = 0
       THEN /\ output_lock = Free
            /\ output_lock' = Main
            /\ pc' = "drain"
            /\ UNCHANGED cf_result
       ELSE /\ cf_result' = <<Aggregate(errored, <<>>)>>
            /\ pc' = "returned"
            /\ UNCHANGED output_lock
    /\ UNCHANGED saved
    /\ UNCHANGED <<input, result, shared, files_lock, errored_lock, threads, wpc,
                   wfile, wcode, history>>

\* line 255: output.lock().unwrap().drain(..).collect()
Drain ==
    /\ pc = "drain"
    /\ cf_result' = <<Aggregate(0, output)>>
    /\ output' = <<>>
    /\ output_lock' = Free
    /\ pc' = "returned"
    /\ UNCHANGED saved
    /\ UNCHANGED <<input, result, files, errored, poisoned, files_lock,
                   errored_lock, threads, wpc, wfile, wcode, history>>

(***************************************************************************)
(* The worker threads (lines 219-245).                                     *)
(***************************************************************************)
\* the process is alive: a panic of the main thread ends it
Running == pc # "panicked"

\* line 222: files.lock()
LockFiles(w) ==
    /\ Running
    /\ wpc[w] = "loop"
    /\ files_lock = Free
    /\ files_lock' = w
    /\ wpc' = [wpc EXCEPT ![w] = "locked_files"]
    /\ UNCHANGED saved
    /\ UNCHANGED <<input, pc, cf_result, result, shared, errored_lock,
                   output_lock, threads, wfile, wcode, history>>

\* the last element is read and left in the list
PopPeeking(w) ==
    /\ Running
    /\ wpc[w] = "locked_files"
    /\ IF files = <<>>
       THEN /\ wpc' = [wpc EXCEPT ![w] = "exited"]
            /\ UNCHANGED wfile
       ELSE /\ wfile' = [wfile EXCEPT ![w] = files[Len(files)]]
            /\ wpc' = [wpc EXCEPT ![w] = "compile_file"]
    /\ files_lock' = Free
    /\ UNCHANGED saved
    /\ UNCHANGED <<input, pc, cf_result, result, shared, errored_lock,
                   output_lock, threads, wcode, history>>

\* the guard of the pending list lives until the end of the iteration
PopKeepingLock(w) ==
    /\ Running
    /\ wpc[w] = "locked_files"
    /\ IF files = <<>>
       THEN /\ wpc' = [wpc EXCEPT ![w] = "exited"]
            /\ files_lock' = Free
            /\ UNCHANGED <<files, wfile>>
       ELSE /\ wfile' = [wfile EXCEPT ![w] = files[Len(files)]]
            /\ files' = SubSeq(files, 1, Len(files) - 1)
            /\ wpc' = [wpc EXCEPT ![w] = "compile_file"]
            /\ UNCHANGED files_lock
    /\ UNCHANGED saved
    /\ UNCHANGED <<input, pc, cf_result, result, errored, poisoned, output,
                   errored_lock, output_lock, threads, wcode, history>>

\* lines 223-227: under the lock, break on an empty list or pop its last
\* element; the guard is dropped at the end of the block
Pop(w) ==
    /\ Running
    /\ wpc[w] = "locked_files"
    /\ IF files = <<>>
       THEN /\ wpc' = [wpc EXCEPT ![w] = "exited"]
            /\ UNCHANGED <<files, wfile>>
       ELSE /\ wfile' = [wfile EXCEPT ![w] = files[Len(files)]]
            /\ files' = SubSeq(files, 1, Len(files) - 1)
            /\ wpc' = [wpc EXCEPT ![w] = "compile_file"]
    /\ files_lock' = Free
    /\ UNCHANGED saved
    /\ UNCHANGED <<input, pc, cf_result, result, errored, poisoned, output,
                   errored_lock, output_lock, threads, wcode, history>>

\* line 228: compile_file(&filename, filename.clone(), 2, &options) returns
CompileFile(w) ==
    /\ Running
    /\ wpc[w] = "compile_file"
    /\ LET src == FileSrc[tree][filename(wfile[w])]
           r == compile_file(src, filename(wfile[w]), filename(wfile[w]), Scope)
       IN  /\ calls' = [calls EXCEPT ![wfile[w]] = @ + 1]
           /\ IF r.ok
              THEN /\ wcode' = [wcode EXCEPT ![w] = r.val]
                   /\ wpc' = [wpc EXCEPT ![w] = "lock_output"]
                   /\ UNCHANGED <<err_returns, io_returns>>
              ELSE /\ wpc' = [wpc EXCEPT ![w] = "lock_errored"]
                   /\ err_returns' = err_returns + 1
                   /\ io_returns' = io_returns + (IF src = "noread" THEN 1 ELSE 0)
                   /\ UNCHANGED wcode
    /\ UNCHANGED saved
    /\ UNCHANGED <<input, pc, cf_result, result, shared, locks, threads, wfile,
                   printed>>

\* line 231: errored.lock().unwrap(); the unwrap panics on a poisoned mutex
WorkerLockErrored(w) ==
    /\ Running
    /\ wpc[w] = "lock_errored"
    /\ errored_lock = Free
    /\ IF poisoned
       THEN /\ wpc' = [wpc EXCEPT ![w] = "panicked"]
            /\ wfile' = [wfile EXCEPT ![w] = 0]
            /\ UNCHANGED errored_lock
       ELSE /\ wpc' = [wpc EXCEPT ![w] = "locked_errored"]
            /\ errored_lock' = w
            /\ UNCHANGED wfile
    /\ UNCHANGED saved
    /\ UNCHANGED <<input, pc, cf_result, result, shared, files_lock, output_lock,
                   threads, wcode, history>>

\* line 231: += 1 on the u8, then the guard is dropped.  At 255 the addition
\* overflows: a build with overflow checks panics with the guard alive (the
\* mutex is poisoned), a build without them wraps to 0.
Increment(w) ==
    /\ Running
    /\ wpc[w] = "locked_errored"
    /\ \/ /\ errored + 1 < U8Mod
          /\ errored' = errored + 1
          /\ wpc' = [wpc EXCEPT ![w] = "report"]
          /\ UNCHANGED <<poisoned, wfile>>
       \/ /\ errored + 1 >= U8Mod
          /\ \E overflow_checks \in BOOLEAN :
                IF overflow_checks
                THEN /\ poisoned' = TRUE
                     /\ wpc' = [wpc EXCEPT ![w] = "panicked"]
                     /\ wfile' = [wfile EXCEPT ![w] = 0]
                     /\ UNCHANGED errored
                ELSE /\ errored' = (errored + 1) % U8Mod
                     /\ wpc' = [wpc EXCEPT ![w] = "report"]
                     /\ UNCHANGED <<poisoned, wfile>>
    /\ errored_lock' = Free
    /\ UNCHANGED saved
    /\ UNCHANGED <<input, pc, cf_result, result, files, output, files_lock,
                   output_lock, threads, wcode, history>>

\* lines 232-233: println!("Error: {}", e); continue
Report(w) ==
    /\ Running
    /\ wpc[w] = "report"
    /\ wpc' = [wpc EXCEPT ![w] = "loop"]
    /\ wfile' = [wfile EXCEPT ![w] = 0]
    /\ printed' = printed + 1
    /\ UNCHANGED saved
    /\ UNCHANGED <<input, pc, cf_result, result, shared, locks, threads, wcode,
                   calls, err_returns, io_returns>>

\* lines 237-244: the fragment is formatted, then output.lock()
LockOutput(w) ==
    /\ Running
    /\ wpc[w] = "lock_output"
    /\ output_lock = Free
    /\ output_lock' = w
    /\ wpc' = [wpc EXCEPT ![w] = "locked_output"]
    /\ UNCHANGED saved
    /\ UNCHANGED <<input, pc, cf_result, result, shared, files_lock, errored_lock,
                   threads, wfile, wcode, history>>

\* the guard of the fragment list lives into the next iteration
PushKeepingLock(w) ==
    /\ Running
    /\ wpc[w] = "locked_output"
    /\ output' = Append(output, Fragment(realname(wfile[w]), wcode[w]))
    /\ wpc' = [wpc EXCEPT ![w] = "loop"]
    /\ wfile' = [wfile EXCEPT ![w] = 0]
    /\ wcode' = [wcode EXCEPT ![w] = ""]
    /\ UNCHANGED saved
    /\ UNCHANGED <<input, pc, cf_result, result, files, errored, poisoned,
                   locks, threads, history>>

\* the fragment takes the place of the list instead of being added to it
PushReplacing(w) ==
    /\ Running
    /\ wpc[w] = "locked_output"
    /\ output' = <<Fragment(realname(wfile[w]), wcode[w])>>
    /\ output_lock' = Free
    /\ wpc' = [wpc EXCEPT ![w] = "loop"]
    /\ wfile' = [wfile EXCEPT ![w] = 0]
    /\ wcode' = [wcode EXCEPT ![w] = ""]
    /\ UNCHANGED saved
    /\ UNCHANGED <<input, pc, cf_result, result, files, errored, poisoned,
                   files_lock, errored_lock, threads, history>>

\* line 244: push(string), the guard is dropped, next iteration
Push(w) ==
    /\ Running
    /\ wpc[w] = "locked_output"
    /\ output' = Append(output, Fragment(realname(wfile[w]), wcode[w]))
    /\ output_lock' = Free
    /\ wpc' = [wpc EXCEPT ![w] = "loop"]
    /\ wfile' = [wfile EXCEPT ![w] = 0]
    /\ wcode' = [wcode EXCEPT ![w] = ""]
    /\ UNCHANGED saved
    /\ UNCHANGED <<input, pc, cf_result, result, files, errored, poisoned,
                   files_lock, errored_lock, threads, history>>

(***************************************************************************)
(* main after compile_folder, and the single-file mode.                    *)
(***************************************************************************)
\* fs::write(path, content): File::create, then write_all.  An empty path
\* cannot be created; any other write succeeds, fails at the creation (the
\* file is untouched) or fails after it (the file is left truncated).
WriteOutcomes(path) ==
    IF path = "" THEN {"create_failed"}
    ELSE {"ok", "create_failed", "write_failed"}

Written(path, content, outcome) ==
    IF outcome = "create_failed" THEN disk
    ELSE [p \in DOMAIN disk \cup {path} |->
             IF p = path THEN (IF outcome = "ok" THEN content ELSE "")
             ELSE disk[p]]

\* lines 319-338: the ? on compile_folder's result, then the assembly
AssembleArtifact ==
    /\ pc = "returned"
    /\ IF ~cf_result[1].ok
       THEN /\ result' = <<cf_result[1]>>
            /\ pc' = "done"
            /\ UNCHANGED <<code, asm>>
       ELSE \E jitbit \in JitbitOptions,
               base \in {<<BaseLua>>, <<>>} \cup {<<b>> : b \in CustomBases} :
               IF base = <<>>
               THEN /\ result' = <<Err("The given custom base was not found!")>>
                    /\ pc' = "done"
                    /\ UNCHANGED <<code, asm>>
               ELSE LET split == SplitCode(Joined(Prelude(jitbit), cf_result[1].val))
                    IN  /\ asm' = [base |-> base[1], prefix |-> Prelude(jitbit),
                                   statics |-> split[1], output |-> split[2]]
                        /\ code' = Assemble(Prelude(jitbit), cf_result[1].val, base[1])
                        /\ pc' = "save_folder"
                        /\ UNCHANGED result
    /\ UNCHANGED <<input, cf_result, pool, compiledname, dontsave, debug, disk,
                   writes>>

\* lines 339-354: the artifact is written unless --dontsave is given
SaveFolder ==
    /\ pc = "save_folder"
    /\ \E ds \in BOOLEAN, outputname \in {"main", "main.lua"}, o \in {"ok", "create_failed", "write_failed"} :
          /\ dontsave' = ds
          /\ IF ds
             THEN /\ pc' = "debug"
                  /\ UNCHANGED <<compiledname, disk, writes, result>>
             ELSE LET stripped == strip_suffix(outputname, ".lua")
                      output_name ==
                          (IF stripped # <<>> THEN stripped[1] ELSE outputname)
                          \o ".lua"
                      name == "root" \o "/" \o output_name
                  IN  /\ o \in WriteOutcomes(name)
                      /\ compiledname' = name
                      /\ disk' = Written(name, code, o)
                      /\ writes' = Append(writes, [path |-> name, ok |-> o = "ok"])
                      /\ IF o = "ok"
                         THEN pc' = "debug" /\ UNCHANGED result
                         ELSE pc' = "done" /\ result' = <<Err("write: " \o o)>>
    /\ UNCHANGED <<input, cf_result, pool, code, asm, debug>>

\* lines 355-361: path.is_file(), the file is compiled under scope 0
MainFile ==
    /\ pc = "main"
    /\ \E src \in SrcKinds :
          LET r == compile_file(src, "m.clue", "m.clue", 0)
          IN  IF r.ok
              THEN code' = r.val /\ pc' = "save_file" /\ UNCHANGED result
              ELSE result' = <<r>> /\ pc' = "done" /\ UNCHANGED code
    /\ UNCHANGED <<input, cf_result, pool, asm, compiledname, dontsave, debug,
                   disk, writes>>

\* lines 363-367: the translation is written next to the source
SaveFile ==
    /\ pc = "save_file"
    /\ \E ds \in BOOLEAN, o \in {"ok", "create_failed", "write_failed"} :
          /\ dontsave' = ds
          /\ IF ds
             THEN /\ pc' = "debug"
                  /\ UNCHANGED <<compiledname, disk, writes, result>>
             ELSE LET name == unwrap(strip_suffix("m.clue", ".clue")) \o ".lua"
                  IN  /\ o \in WriteOutcomes(name)
                      /\ compiledname' = name
                      /\ disk' = Written(name, code, o)
                      /\ writes' = Append(writes, [path |-> name, ok |-> o = "ok"])
                      /\ IF o = "ok"
                         THEN pc' = "debug" /\ UNCHANGED result
                         ELSE pc' = "done" /\ result' = <<Err("write: " \o o)>>
    /\ UNCHANGED <<input, cf_result, pool, code, asm, debug>>

\* lines 372-385: with debug information the wrapped code is written to
\* compiledname, whatever compiledname holds
Finish ==
    /\ pc = "debug"
    /\ \E dbg \in BOOLEAN, o \in {"ok", "create_failed", "write_failed"} :
          /\ debug' = dbg
          /\ IF dbg
             THEN LET newoutput == DebugLua(code)
                  IN  /\ o \in WriteOutcomes(compiledname)
                      /\ disk' = Written(compiledname, newoutput, o)
                      /\ writes' = Append(writes,
                                     [path |-> compiledname, ok |-> o = "ok"])
                      /\ result' = <<IF o = "ok" THEN Ok("")
                                     ELSE Err("write: " \o o)>>
             ELSE /\ o = "ok"
                  /\ result' = <<Ok("")>>
                  /\ UNCHANGED <<disk, writes>>
    /\ pc' = "done"
    /\ UNCHANGED <<input, cf_result, pool, code, asm, compiledname, dontsave>>

Worker(w) ==
    \/ LockFiles(w) \/ Pop(w) \/ CompileFile(w)
    \/ WorkerLockErrored(w) \/ Increment(w) \/ Report(w)
    \/ LockOutput(w) \/ Push(w)

Next ==
    \/ MainExit \/ MainCode \/ MainNoPath \/ MainDir \/ MainFile
    \/ Setup \/ Spawn \/ Join \/ LockErrored \/ ReadErrored \/ MatchErrored
    \/ Drain
    \/ AssembleArtifact \/ SaveFolder \/ SaveFile \/ Finish
    \/ \E w \in Workers : Worker(w)

Spec == Init /\ [][Next]_vars

InitOverflow == InitWith(SmallIds \cup LargeIds) /\ cpus = 1
SpecOverflow == InitOverflow /\ [][Next]_vars

\* the runs on the trees whose file names hold the marker texts
InitMarkers == InitWith(MarkerIds)
SpecMarkers == InitMarkers /\ [][Next]_vars

(***************************************************************************)
(* Properties.                                                             *)
(***************************************************************************)
\* the number of files check_for_files returned
NumFiles == Len(Found)

\* the discovered files whose compile_file call returns Err, per tree
FailingFiles ==
    [t \in DOMAIN TreeTable |->
        IF ~Discovered[t].ok THEN {}
        ELSE {i \in 1..Len(Discovered[t].val) :
                 FileSrc[t][Discovered[t].val[i][1]] # "good"}]

\* compile_folder got past the discovery
Discovering == pc \in {"main", "compile_folder"}
FolderRun ==
    /\ Discovered[tree].ok
    /\ \/ pc \in {"threads", "read_errored", "match", "drain", "returned",
                 "panicked"}
       \/ cf_result # <<>>

SpawnedWorkers == {w \in Workers : wpc[w] # "unspawned"}

\* the spawn loop is over and every spawned thread has terminated
PoolDone ==
    /\ FolderRun
    /\ spawned = threads_count
    /\ \A w \in SpawnedWorkers : Terminated(w)

\* C1: a file a worker popped is in the hands of that worker alone and is
\* passed to compile_file at most once, and once every worker has exited the
\* pending list is empty and each discovered file was passed to compile_file
\* exactly once
C1_ExactlyOnce ==
    FolderRun =>
        /\ \A w \in Workers : wfile[w] # 0 =>
              /\ calls[wfile[w]] <= 1
              /\ \A v \in Workers \ {w} : wfile[v] # wfile[w]
        /\ PoolDone => /\ files = <<>>
                       /\ \A i \in 1..NumFiles : calls[i] = 1

\* C2: the value of the error counter that compile_folder reads after the
\* joins is the number of compile_file calls that returned Err
C2_CounterExact ==
    pc = "read_errored" => errored = err_returns

\* the key of a fragment: the text between its opening and "] = function()
FragmentKey(fragment) ==
    SubSeq(fragment, 4, SetMin(Occurrences(fragment, "\"] = function()\n")) - 1)

AllGood == Discovered[tree].ok /\ FailingFiles[tree] = {}

\* C3: when every file of the tree compiles, compile_folder returns Ok with
\* one fragment per discovered file and as many distinct keys as files
C3_AllSucceed ==
    (cf_result # <<>> /\ AllGood) =>
        /\ cf_result[1].ok
        /\ Len(cf_result[1].val) = NumFiles
        /\ \A i \in 1..NumFiles : \E j \in DOMAIN cf_result[1].val :
              cf_result[1].val[j] =
                  Fragment(realname(i), compile_file("good", filename(i), filename(i), Scope).val)
        /\ Cardinality({FragmentKey(cf_result[1].val[j]) :
                            j \in DOMAIN cf_result[1].val}) = NumFiles

\* the message the claim gives for k failed files
FailureMessage(k) ==
    IF k = 1 THEN "1 file failed to compile!"
    ELSE ToString(k) \o " files failed to compile!"

\* C4: with k >= 1 failing files compile_folder returns Err with the message
\* for exactly k, and main returns that error having assembled and written
\* nothing
C4_CountExactFailure ==
    (cf_result # <<>> /\ Discovered[tree].ok /\ FailingFiles[tree] # {}) =>
        /\ cf_result[1] = Err(FailureMessage(Cardinality(FailingFiles[tree])))
        /\ pc \in {"returned", "done"}
        /\ pc = "done" => /\ result = cf_result
                          /\ code = ""
                          /\ writes = <<>>
                          /\ disk = <<>>

\* C5: a failure stops no worker: a worker terminates only on an empty
\* pending list, so that every discovered file has been passed to
\* compile_file when the pool is done
C5_FailOpen ==
    FolderRun =>
        /\ \A w \in SpawnedWorkers : Terminated(w) => files = <<>>
        /\ PoolDone => \A i \in 1..NumFiles : calls[i] >= 1

\* the spawn loop of compile_folder has ended
AfterSpawnLoop ==
    /\ FolderRun
    /\ pc = "threads" => spawned = threads_count

\* min(fileCount, 2 * hardwareParallelism)
ExpectedWorkers ==
    IF NumFiles <= 2 * cpus THEN NumFiles ELSE 2 * cpus

\* C6: compile_folder spawns min(fileCount, 2 * cpus) workers: never more
\* than that, exactly that many once the spawn loop has ended, and so 0 for
\* no file and 1 for one file
C6_WorkerCount ==
    /\ Cardinality(SpawnedWorkers) <= 2 * cpus
    /\ FolderRun => Cardinality(SpawnedWorkers) <= ExpectedWorkers
    /\ AfterSpawnLoop =>
          /\ Cardinality(SpawnedWorkers) = ExpectedWorkers
          /\ NumFiles = 0 => SpawnedWorkers = {}
          /\ NumFiles = 1 => Cardinality(SpawnedWorkers) = 1

\* the pool is capped: three files, one cpu, two workers
C6_Witness ==
    /\ AfterSpawnLoop
    /\ NumFiles = 3 /\ cpus = 1
    /\ Cardinality(SpawnedWorkers) = 2

Holds(w, lock) == lock = w

\* C7: a worker inside compile_file holds none of the three locks
C7_NoLockAcrossCompile ==
    \A w \in Workers :
        wpc[w] = "compile_file" =>
            /\ ~Holds(w, files_lock)
            /\ ~Holds(w, errored_lock)
            /\ ~Holds(w, output_lock)

\* a worker is inside compile_file while another holds the pending-list lock
C7_Witness ==
    \E w, v \in Workers :
        /\ wpc[w] = "compile_file"
        /\ wpc[v] = "locked_files" /\ Holds(v, files_lock)

\* compile_folder is reading the counter, draining the list or has returned
Aggregating ==
    /\ Discovered[tree].ok
    /\ pc \in {"read_errored", "match", "drain"} \/ cf_result # <<>>

\* C8: the counter is read and the fragment list drained only when every
\* spawned worker has left its loop, with no pop, increment or push pending
\* and no lock held by a worker
C8_JoinBarrier ==
    Aggregating =>
        /\ spawned = threads_count
        /\ \A w \in Workers : wpc[w] \in {"unspawned", "exited"}
        /\ \A w \in Workers : wfile[w] = 0
        /\ files_lock \in {Free, Main}
        /\ errored_lock \in {Free, Main}
        /\ output_lock \in {Free, Main}

\* the fragments of two workers are being drained
C8_Witness ==
    /\ pc = "drain"
    /\ threads_count >= 2
    /\ Len(output) >= 2

\* the message compile_file returns on an IO failure
IoMessage == read_source("noread", "").val

\* C9: an IO failure inside a worker is not counted in the error counter,
\* which counts the failed translations only, and compile_folder then
\* returns the IO error
C9_IoFatal ==
    /\ errored <= err_returns - io_returns
    /\ (io_returns > 0 /\ cf_result # <<>>) => cf_result[1] = Err(IoMessage)

\* C10: once main has read that saving is suppressed it calls fs::write on
\* no path, writes no file and returns Ok
C10_NoWriteWhenSuppressed ==
    dontsave =>
        /\ writes = <<>>
        /\ disk = <<>>
        /\ pc = "done" => result[1].ok

\* main has assembled the artifact of a folder
Assembled == asm.base # ""

\* the template with each statics marker it contains replaced by statics and
\* each output marker it contains replaced by out, the rest copied as it is
Substituted(base, statics, out) ==
    LET smark == Occurrences(base, StaticsMarker)
        omark == Occurrences(base, OutputMarker)
        RECURSIVE from_pos(_)
        from_pos(pos) ==
            LET later == {i \in smark \cup omark : i >= pos}
            IN  IF later = {} THEN SubSeq(base, pos, Len(base))
                ELSE LET i == SetMin(later)
                     IN  SubSeq(base, pos, i - 1)
                         \o (IF i \in smark
                             THEN statics \o from_pos(i + Len(StaticsMarker))
                             ELSE out \o from_pos(i + Len(OutputMarker)))
    IN  from_pos(1)

\* C11: the assembled artifact is the template with its statics marker
\* replaced by the statics text and each output marker the template contains
\* replaced by the body text, and nothing else changed
C11_TemplateFill ==
    Assembled => code = Substituted(asm.base, asm.statics, asm.output)

\* the source files of every tree: the regular files whose name ends with the
\* source extension, by path
SourceFiles ==
    [t \in DOMAIN TreeTable |->
        {f[1] : f \in {g \in FilesUnder("root", TreeTable[t]) :
                          ends_with(g[1], ".clue")}}]

\* the qualified name of the file at a path under the root: its segments
\* joined by '.', without the extension
QualifiedName(path) ==
    replace(SubSeq(path, Len("root/") + 1, Len(path) - Len(".clue")), "/", ".")

\* C12: check_for_files records the entries whose name ends with the source
\* extension and no other, and the fragment a worker pushes for a file is
\* keyed by the directory segments of the file under the root and its stem,
\* joined by '.'
C12_QualifiedNames ==
    /\ Discovered[tree].ok =>
          /\ {Found[i][1] : i \in DOMAIN Found} = SourceFiles[tree]
          /\ Len(Found) = Cardinality(SourceFiles[tree])
    /\ \A j \in DOMAIN output : \E i \in DOMAIN Found :
          output[j] = "\t[\"" \o QualifiedName(filename(i)) \o "\"] = function()\n"
                      \o compile_file("good", filename(i), filename(i), Scope).val
                      \o "\n\tend,\n"

\* the fragment of root/a/b/c.clue has been pushed, next to a/n.txt
C12_Witness ==
    /\ "root/a/n.txt" \in {f[1] : f \in FilesUnder("root", TreeTable[tree])}
    /\ \E j \in DOMAIN output :
          /\ FragmentKey(output[j]) = "a.b.c"
          /\ Occurrences(output[j], "root/a/b/c.clue") # {}

\* C15: the split of the joined text succeeds, its first part is the text
\* before the sentinel main prepended and its second part contains every
\* fragment compile_folder returned
C15_SplitAtPrependedSentinel ==
    Assembled =>
        /\ rsplit_once(Joined(asm.prefix, cf_result[1].val), Sentinel) # <<>>
        /\ asm.statics = asm.prefix
        /\ \A j \in DOMAIN cf_result[1].val :
              Occurrences(asm.output, cf_result[1].val[j]) # {}

\* a step of the thread that runs compile_folder
FolderMain ==
    \/ Setup \/ Spawn \/ Join \/ LockErrored \/ ReadErrored \/ MatchErrored
    \/ Drain

\* a step of compile_folder: of the thread that runs it or of a worker
FolderStep == FolderMain \/ \E w \in Workers : Worker(w)

\* compile_folder is running: called and neither returned nor stopped by a
\* panic of its thread
InFolder ==
    pc \in {"compile_folder", "threads", "read_errored", "match", "drain"}

\* fair scheduling: the main thread and every worker get to run
FairSpec ==
    /\ Spec
    /\ WF_vars(FolderMain)
    /\ \A w \in Workers : WF_vars(Worker(w))

\* a call of compile_folder returns
Termination == (pc = "compile_folder") ~> (cf_result # <<>>)

\* the worker w is not waiting: it is inside its loop and either needs no lock
\* for its next step or the lock it requests is free
Runnable(w) ==
    \/ wpc[w] \in {"locked_files", "compile_file", "locked_errored", "report",
                   "locked_output"}
    \/ wpc[w] = "loop" /\ files_lock = Free
    \/ wpc[w] = "lock_errored" /\ errored_lock = Free
    \/ wpc[w] = "lock_output" /\ output_lock = Free

\* the thread of compile_folder is not waiting for a worker or for a lock
MainRunnable ==
    \/ pc \in {"compile_folder", "read_errored", "drain"}
    \/ pc = "threads" /\ spawned < threads_count
    \/ pc = "threads" /\ joined < threads_count /\ Terminated(joined + 1)
    \/ pc = "threads" /\ joined = threads_count /\ errored_lock = Free
    \/ pc = "match" /\ (errored # 0 \/ output_lock = Free)

\* C13: compile_folder terminates: while it runs some thread is not waiting
\* (no deadlock), a worker ends only by finding the pending list empty, and
\* no join fails
C13_Terminates ==
    /\ InFolder => (MainRunnable \/ \E w \in Workers : Runnable(w))
    /\ \A w \in Workers : Terminated(w) => (wpc[w] = "exited" /\ files = <<>>)
    /\ pc # "panicked"

\* the fragment of the i-th discovered file of the tree t, when it compiles
FragmentOf(t, i) ==
    LET file == Discovered[t].val[i]
    IN  Fragment(file[2], compile_file("good", file[1], file[1], Scope).val)

\* the discovered files of the tree t that compile
GoodFiles(t) ==
    IF ~Discovered[t].ok THEN {}
    ELSE DOMAIN Discovered[t].val \ FailingFiles[t]

\* the number of elements of the sequence s equal to x
Count(s, x) == Cardinality({j \in DOMAIN s : s[j] = x})

\* the result of every run on the tree t, up to the order of the fragments:
\* what the u8 counter holds after one increment per failing file, and the
\* fragments of the files that compile
SameOutcome(r, t) ==
    LET n == Cardinality(FailingFiles[t]) % U8Mod
    IN  /\ r.ok <=> n = 0
        /\ ~r.ok => r = Aggregate(n, <<>>)
        /\ r.ok => /\ Len(r.val) = Cardinality(GoodFiles(t))
                   /\ \A i \in GoodFiles(t) :
                         Count(r.val, FragmentOf(t, i)) =
                             Cardinality({k \in GoodFiles(t) :
                                             FragmentOf(t, k) = FragmentOf(t, i)})

\* C14: the result compile_folder returns is fixed by the files and their
\* outcomes, whatever the interleaving of the workers: the same Ok or Err,
\* the same error count and the same multiset of fragments
C14_Deterministic ==
    (cf_result # <<>> /\ Discovered[tree].ok) => SameOutcome(cf_result[1], tree)

\* two runs on the same files differ in the order of the fragments: here
\* they are in the order of discovery, a single worker returns the reverse
C14_Witness ==
    /\ cf_result # <<>> /\ Discovered[tree].ok
    /\ cf_result[1].ok
    /\ Len(cf_result[1].val) >= 2
    /\ \E i \in GoodFiles(tree) : \E k \in GoodFiles(tree) :
          /\ i < k
          /\ cf_result[1].val[1] = FragmentOf(tree, i)
          /\ cf_result[1].val[2] = FragmentOf(tree, k)

\* C16: when main has finished with debug information enabled and saving not
\* suppressed, the output file does not hold the undecorated artifact, and
\* after a success it holds the debug-wrapped one
C16_DebugArtifactPersisted ==
    (pc = "done" /\ debug /\ ~dontsave /\ compiledname # "") =>
        /\ compiledname \in DOMAIN disk => disk[compiledname] # code
        /\ result[1].ok => /\ compiledname \in DOMAIN disk
                           /\ disk[compiledname] = DebugLua(code)

\* the workers that observed a failure and have not yet printed its line
Reporting ==
    {w \in Workers : wpc[w] \in {"lock_errored", "locked_errored", "report"}}

\* C17: every compile_file call that returned Err has its "Error: ..." line
\* printed, once, or is in the hands of the worker that is about to print it;
\* every line is printed when compile_folder returns; compile_folder and
\* main return at most one result each
C17_OneLinePerFailure ==
    /\ printed + Cardinality(Reporting) = err_returns
    /\ cf_result # <<>> => printed = err_returns
    /\ Len(cf_result) <= 1
    /\ Len(result) <= 1

RECURSIVE AnyUnreadable(_)
\* the directory, or one below it, cannot be read
AnyUnreadable(dir) ==
    \/ ~dir.readable
    \/ \E i \in DOMAIN dir.entries :
          dir.entries[i].is_dir /\ AnyUnreadable(dir.entries[i])

Unreadable == [t \in DOMAIN TreeTable |-> AnyUnreadable(TreeTable[t])]

\* C18: when a directory of the tree cannot be read, check_for_files returns
\* the IO error and no list, no worker is spawned and no file is passed to
\* compile_file, and compile_folder returns that error
C18_DiscoveryFailure ==
    Unreadable[tree] =>
        /\ Discovered[tree] = Err("Permission denied (os error 13)")
        /\ pc \notin {"threads", "read_errored", "match", "drain", "panicked"}
        /\ spawned = 0 /\ threads_count = 0
        /\ \A w \in Workers : wpc[w] = "unspawned" /\ wfile[w] = 0
        /\ files = <<>> /\ calls = <<>> /\ output = <<>>
        /\ err_returns = 0
        /\ cf_result # <<>> => cf_result[1] = Discovered[tree]

\* compile_folder has returned the error of a sub-directory that cannot be
\* read, in a tree that holds source files
C18_Witness ==
    /\ Unreadable[tree] /\ TreeTable[tree].readable
    /\ SourceFiles[tree] # {}
    /\ cf_result = <<Err("Permission denied (os error 13)")>>

\* the threads: the workers and the thread that runs compile_folder
Threads == Workers \cup {Main}

\* the locks the thread t holds
LocksOf(t) ==
    (IF files_lock = t THEN {"files"} ELSE {})
    \cup (IF errored_lock = t THEN {"errored"} ELSE {})
    \cup (IF output_lock = t THEN {"output"} ELSE {})

\* the thread t acquires a lock in this step
Acquires(t) == LocksOf(t)' \ LocksOf(t) # {}

\* C19: a thread holds at most one of the three locks, and when it acquires
\* one it holds no other
C19_OneLockAtATime ==
    /\ [](\A t \in Threads : Cardinality(LocksOf(t)) <= 1)
    /\ [][\A t \in Threads : Acquires(t) => LocksOf(t) = {}]_vars

\* the locks are independent: two workers hold two of them at the same time
C19_Witness ==
    \E w, v \in Workers :
        /\ w # v
        /\ LocksOf(w) = {"files"}
        /\ LocksOf(v) = {"output"}

\* the files popped and not yet recorded as a fragment or as a failure
InFlight ==
    {w \in Workers : wpc[w] \in {"compile_file", "lock_errored", "locked_errored",
                                 "lock_output", "locked_output"}}

\* C20: over at most 255 files, while compile_folder runs the pending files,
\* the files in flight, the fragments and the error counter add up to the
\* number of files, and after the joins the fragments and the error counter do
C20_Conservation ==
    (Discovered[tree].ok /\ NumFiles < U8Mod) =>
        /\ pc \in {"threads", "read_errored", "match", "drain"} =>
              Len(files) + Cardinality(InFlight) + Len(output) + errored = NumFiles
        /\ pc \in {"read_errored", "match", "drain"} =>
              Len(output) + errored = NumFiles

\* a fragment and a failure are recorded while a third file is in flight
C20_Witness ==
    /\ pc = "threads"
    /\ NumFiles = 3
    /\ Cardinality(InFlight) = 1
    /\ Len(output) = 1
    /\ errored = 1

====
